---- MODULE Spec2Model ----
(***************************************************************************)
(* Model of packages/bot-engine/blocks/logic/setVariable/                  *)
(* executeSetVariable.ts: the "Set variable" logic block of the bot        *)
(* engine.                                                                 *)
(*                                                                         *)
(* Strings are sequences of tokens.  A token is one character ("0", "a",   *)
(* ".") or an indivisible piece of a template literal of the source        *)
(* ("if(!", "return ", "{{").  The pieces "{{", "}}" and "return " are     *)
(* always tokens of their own, so that startsWith, endsWith, split and     *)
(* includes of the source are computed on the token sequence.              *)
(*                                                                         *)
(* JavaScript values are records [t, v]: t is the type tag, v the payload. *)
(* Numbers are fixed-point integers scaled by Scale.                       *)
(***************************************************************************)
EXTENDS Integers, Sequences, FiniteSets, TLC

\* Longest custom expression text of SpecEval, in characters.
MaxLen == 4
\* Longest list held by a variable in the initial pools of SpecList.
MaxListLen == 2

----------------------------------------------------------------------------
(* JavaScript values                                                       *)

Undefined == [t |-> "undefined", v |-> <<>>]
Str(s) == [t |-> "string", v |-> s]
Num(n) == [t |-> "number", v |-> n]
Bool(b) == [t |-> "boolean", v |-> b]
Arr(l) == [t |-> "array", v |-> l]

RECURSIVE Pow10(_)
Pow10(n) == IF n = 0 THEN 1 ELSE 10 * Pow10(n - 1)

\* Fixed-point scale of Num payloads: MaxLen fractional digits.
Scale == Pow10(MaxLen)

\* The operand of `!x` and of `if (x)`: JavaScript ToBoolean, negated.
IsFalsy(x) ==
  \/ x.t = "undefined"
  \/ x.t = "string" /\ x.v = <<>>
  \/ x.t = "number" /\ x.v = 0
  \/ x.t = "boolean" /\ x.v = FALSE

DigitChars == {"0", "1", "2", "3", "4", "5", "6", "7", "8", "9"}

DigitValue(c) ==
  CASE c = "0" -> 0 [] c = "1" -> 1 [] c = "2" -> 2 [] c = "3" -> 3
    [] c = "4" -> 4 [] c = "5" -> 5 [] c = "6" -> 6 [] c = "7" -> 7
    [] c = "8" -> 8 [] c = "9" -> 9

DigitChar(d) ==
  CASE d = 0 -> "0" [] d = 1 -> "1" [] d = 2 -> "2" [] d = 3 -> "3"
    [] d = 4 -> "4" [] d = 5 -> "5" [] d = 6 -> "6" [] d = 7 -> "7"
    [] d = 8 -> "8" [] d = 9 -> "9"

\* Value of a digit sequence read in the given radix.
RECURSIVE DigitsValue(_, _)
DigitsValue(ds, radix) ==
  IF ds = <<>> THEN 0
  ELSE DigitsValue(SubSeq(ds, 1, Len(ds) - 1), radix) * radix + DigitValue(ds[Len(ds)])

CountOf(str, tok) == Cardinality({i \in 1..Len(str) : str[i] = tok})

\* Index of the first occurrence of tok in str, Len(str) + 1 when there is none.
FirstIndex(str, tok) ==
  IF \E i \in 1..Len(str) : str[i] = tok
  THEN CHOOSE i \in 1..Len(str) : str[i] = tok /\ \A j \in 1..(i - 1) : str[j] # tok
  ELSE Len(str) + 1

IntPart(str) == SubSeq(str, 1, FirstIndex(str, ".") - 1)
FracPart(str) == SubSeq(str, FirstIndex(str, ".") + 1, Len(str))

\* Number(str) is a number: decimal digits with at most one point and at
\* least one digit; the empty string converts to 0.
IsNumeric(str) ==
  \/ str = <<>>
  \/ /\ \A i \in 1..Len(str) : str[i] \in DigitChars \cup {"."}
     /\ CountOf(str, ".") <= 1
     /\ \E i \in 1..Len(str) : str[i] \in DigitChars

\* Number(str) for a numeric string, as a fixed-point integer.
ToNumber(str) ==
  DigitsValue(IntPart(str), 10) * Scale
    + DigitsValue(FracPart(str), 10) * Pow10(MaxLen - Len(FracPart(str)))

\* Decimal digits of a natural number.
RECURSIVE NatToText(_)
NatToText(n) ==
  IF n < 10 THEN <<DigitChar(n)>> ELSE NatToText(n \div 10) \o <<DigitChar(n % 10)>>

\* Fraction digits of a fixed-point remainder, without trailing zeros.
RECURSIVE FracToText(_, _)
FracToText(r, width) ==
  IF r = 0 THEN <<>>
  ELSE <<DigitChar(r \div Pow10(width - 1))>> \o FracToText(r % Pow10(width - 1), width - 1)

\* String(n) of a non-negative number.
NumToText(n) ==
  NatToText(n \div Scale)
    \o (IF n % Scale = 0 THEN <<>> ELSE <<".">> \o FracToText(n % Scale, MaxLen))

\* JavaScript ToString of a value, as String.prototype.indexOf applies it to
\* its argument; the elements of an array are joined by ",".
RECURSIVE JsToString(_)
JoinFrom(l, i, acc) == acc \o (IF i = 1 THEN <<>> ELSE <<",">>) \o JsToString(l[i])
RECURSIVE JoinAll(_, _)
JoinAll(l, n) == IF n = 0 THEN <<>> ELSE JoinFrom(l, n, JoinAll(l, n - 1))
JsToString(x) ==
  CASE x.t = "undefined" -> <<"undefined">>
    [] x.t = "string" -> x.v
    [] x.t = "number" -> NumToText(x.v)
    [] x.t = "boolean" -> IF x.v THEN <<"true">> ELSE <<"false">>
    [] x.t = "array" -> JoinAll(x.v, Len(x.v))

----------------------------------------------------------------------------
(* Optional strings, the variable pool and the collaborators of the block  *)

\* A value of type string | null.
Null == [null |-> TRUE, str |-> <<>>]
Some(s) == [null |-> FALSE, str |-> s]

\* The operand of `x && ...` for a string | null: null and "" are falsy.
IsTruthy(e) == ~e.null /\ e.str # <<>>

\* Variable: id, name and value; the pool is a sequence of variables.
Variable(id, name, value) == [id |-> id, name |-> name, value |-> value]

HasId(variables, id) == \E i \in 1..Len(variables) : variables[i].id = id
HasName(variables, name) == \E i \in 1..Len(variables) : variables[i].name = name

\* variables.find(byId(id)): index of the first variable with that id, 0 when
\* there is none.
FindById(variables, id) ==
  IF HasId(variables, id)
  THEN CHOOSE i \in 1..Len(variables) :
         variables[i].id = id /\ \A j \in 1..(i - 1) : variables[j].id # id
  ELSE 0

FindByName(variables, name) ==
  CHOOSE i \in 1..Len(variables) :
    variables[i].name = name /\ \A j \in 1..(i - 1) : variables[j].name # name

\* JSON text of a list of strings, as the template substitution prints a list.
RECURSIVE JsonItems(_, _)
JsonItems(l, n) ==
  IF n = 0 THEN <<>>
  ELSE JsonItems(l, n - 1) \o (IF n = 1 THEN <<>> ELSE <<",">>)
         \o <<"\"">> \o JsToString(l[n]) \o <<"\"">>

\* Text a placeholder {{name}} is replaced by.
PlaceholderText(variables, name, byId) ==
  IF ~HasName(variables, name) THEN <<>>
  ELSE LET var == variables[FindByName(variables, name)] IN
       IF byId THEN <<var.id>>
       ELSE IF var.value.t = "array"
            THEN <<"[">> \o JsonItems(var.value.v, Len(var.value.v)) \o <<"]">>
            ELSE IF var.value.t = "undefined" THEN <<>> ELSE JsToString(var.value)

\* parseVariables(variables, { fieldToParse })(str): every {{name}} of str is
\* replaced by the variable's value (by its id when fieldToParse is 'id').
RECURSIVE parseVariables(_, _, _)
parseVariables(variables, str, byId) ==
  IF str = <<>> THEN <<>>
  ELSE IF Len(str) >= 3 /\ str[1] = "{{" /\ str[3] = "}}"
       THEN PlaceholderText(variables, str[2], byId)
              \o parseVariables(variables, SubSeq(str, 4, Len(str)), byId)
       ELSE <<str[1]>> \o parseVariables(variables, Tail(str), byId)

\* parseGuessedValueType(value): the typed value a variable is bound to in
\* the sandbox: numbers and booleans are parsed, anything else is kept.
parseGuessedValueType(value) ==
  IF value.t # "string" THEN value
  ELSE IF value.v # <<>> /\ IsNumeric(value.v) THEN Num(ToNumber(value.v))
  ELSE IF value.v = <<"true">> THEN Bool(TRUE)
  ELSE IF value.v = <<"false">> THEN Bool(FALSE)
  ELSE value

\* isEmpty(value) of @typebot.io/lib: undefined, null or ''.
isEmpty(str) == str = <<>>

\* updateVariablesInSession(state)([newVariable]): the pool of the new
\* session state, with the value of the variable of that id replaced.
updateVariablesInSession(variables, newVariable) ==
  [i \in 1..Len(variables) |->
     IF variables[i].id = newVariable.id THEN newVariable ELSE variables[i]]

\* parseScriptToExecuteClientSideAction(variables, expression): the script
\* handed to the client, with the placeholders replaced by variable ids.
parseScriptToExecuteClientSideAction(variables, expression) ==
  parseVariables(variables, expression, TRUE)

----------------------------------------------------------------------------
(* Time resolver                                                           *)

\* Milliseconds in a day, the shift of Tomorrow and Yesterday.
MsPerDay == 86400000

\* A Date is a count of hours since 2024-01-01T00:00:00Z.
HoursOfMs(ms) == ms \div 3600000
DayOf(date) == date \div 24 + 1
HourOf(date) == date % 24

Pad2(n) == IF n < 10 THEN "0" \o ToString(n) ELSE ToString(n)

\* The IANA zones the model knows, with their offset from UTC in January.
ValidZones == {<<"Europe/Paris">>, <<"America/New_York">>, <<"UTC">>}

ZoneOffset(timeZone) ==
  CASE timeZone = <<"Europe/Paris">> -> 1
    [] timeZone = <<"America/New_York">> -> -5
    [] timeZone = <<"UTC">> -> 0

\* The XXX pattern of date-fns-tz: "Z" for a zero offset, else +HH:mm or -HH:mm.
OffsetText(offset) ==
  IF offset = 0 THEN "Z"
  ELSE IF offset > 0 THEN "+" \o Pad2(offset) \o ":00"
  ELSE "-" \o Pad2(0 - offset) \o ":00"

\* date.toISOString()
toISOString(date) ==
  <<"2024-01-", Pad2(DayOf(date)), "T", Pad2(HourOf(date)), ":00:00.000", "Z">>

\* utcToZonedTime(date, timeZone): the date whose UTC fields show the wall
\* clock of the zone.
utcToZonedTime(date, timeZone) == date + ZoneOffset(timeZone)

\* toISOWithTz without the conversion to the wall clock of the zone.
toISOWithTzUnshifted(date, timeZone) ==
  <<"2024-01-", Pad2(DayOf(date)), "T", Pad2(HourOf(date)), ":00:00",
    OffsetText(ZoneOffset(timeZone))>>

\* toISOWithTz(date, timeZone), for a valid zone.
toISOWithTz(date, timeZone) ==
  LET zonedDate == utcToZonedTime(date, timeZone) IN
  <<"2024-01-", Pad2(DayOf(zonedDate)), "T", Pad2(HourOf(zonedDate)), ":00:00",
    OffsetText(ZoneOffset(timeZone))>>

----------------------------------------------------------------------------
(* Expression synthesizer                                                  *)

NowScript == <<"new Date().toISOString()">>
TomorrowScript == <<"new Date(Date.now() + 86400000).toISOString()">>
YesterdayScript == <<"new Date(Date.now() - 86400000).toISOString()">>

Quoted(str) == <<"\"">> \o str \o <<"\"">>

\* The template literal of 'Map item with same index'; absent parameters
\* print as "undefined".
MapScript(params) ==
  <<"const itemIndex = ", params.baseListVariableId, ".indexOf(",
    params.baseItemVariableId, ") ", "return ", params.targetListVariableId,
    ".at(itemIndex)">>

\* The template literal of 'Append value(s)'.
AppendScript(item, variableId) ==
  <<"if(!">> \o item \o <<") ", "return ", variableId, "; if(!", variableId, ") ",
    "return ", "[">> \o item \o <<"]; if(!Array.isArray(", variableId, ")) ",
    "return ", "[", variableId, ", ">> \o item \o <<"]; ", "return ", "(",
    variableId, ").concat(">> \o item \o <<");">>

\* The template literal of 'Moment of the day'.
MomentScript ==
  <<"const now = new Date() ",
    "if(now.getHours() < 12) ", "return ", "'morning' ",
    "if(now.getHours() >= 12 && now.getHours() < 18) ", "return ", "'afternoon' ",
    "if(now.getHours() >= 18) ", "return ", "'evening' ",
    "if(now.getHours() >= 22 || now.getHours() < 6) ", "return ", "'night'">>

Synth(e) == [threw |-> FALSE, expr |-> e]
SynthThrew == [threw |-> TRUE, expr |-> Null]

\* The arm shared by Now, Tomorrow and Yesterday: date is new Date() shifted,
\* script the expression returned when no zone is given.  A zone that is
\* not a valid IANA name makes date-fns-tz throw a RangeError.
ZonedOrScript(state, options, date, script) ==
  LET timeZone == parseVariables(state.variables, options.timeZone, FALSE) IN
  IF isEmpty(timeZone) THEN Synth(Some(script))
  ELSE IF timeZone \notin ValidZones THEN SynthThrew
  ELSE Synth(Some(toISOWithTz(date, timeZone)))

\* getExpressionToEvaluate(state)(options); now is new Date() and newId the
\* id createId() returns.
getExpressionToEvaluate(state, options, now, newId) ==
  CASE options.type = "Contact name" ->
         Synth(IF state.whatsApp.present THEN state.whatsApp.name ELSE Null)
    [] options.type = "Phone number" ->
         Synth(IF state.whatsApp.present /\ IsTruthy(state.whatsApp.phoneNumber)
               THEN Some(Quoted(state.whatsApp.phoneNumber.str))
               ELSE Null)
    [] options.type = "Now" -> ZonedOrScript(state, options, now, NowScript)
    [] options.type = "Today" -> Synth(Some(NowScript))
    [] options.type = "Tomorrow" ->
         ZonedOrScript(state, options, now + HoursOfMs(MsPerDay), TomorrowScript)
    [] options.type = "Yesterday" ->
         ZonedOrScript(state, options, now - HoursOfMs(MsPerDay), YesterdayScript)
    [] options.type = "Random ID" -> Synth(Some(Quoted(<<newId>>)))
    [] options.type \in {"Result ID", "User ID"} ->
         Synth(IF state.resultId.null THEN Some(Quoted(<<newId>>)) ELSE state.resultId)
    [] options.type = "Map item with same index" ->
         Synth(Some(MapScript(options.mapListItemParams)))
    [] options.type = "Append value(s)" ->
         Synth(Some(AppendScript(options.item, options.variableId)))
    [] options.type = "Empty" -> Synth(Null)
    [] options.type = "Moment of the day" -> Synth(Some(MomentScript))
    [] options.type = "Environment name" ->
         Synth(Some(IF state.whatsApp.present THEN <<"whatsapp">> ELSE <<"web">>))
    [] options.type \in {"Custom", "undefined"} -> Synth(options.expressionToEvaluate)

----------------------------------------------------------------------------
(* Sandboxed evaluator: vm.runInContext on the scripts the block builds     *)

\* Outcome of running code: a value, or a thrown error (SyntaxError,
\* ReferenceError, TypeError).
Ok(value) == [threw |-> FALSE, value |-> value]
Threw == [threw |-> TRUE, value |-> Undefined]

IsNumberText(e) ==
  /\ e # <<>>
  /\ \A i \in 1..Len(e) : e[i] \in DigitChars \cup {"."}

\* A numeric literal of a sloppy-mode script.  An integer part of several
\* digits that starts with 0 is a legacy octal literal when all its digits
\* are octal, and takes no fraction.
JsNumericLiteral(e) ==
  LET ip == IntPart(e)
      leadingZero == Len(ip) >= 2 /\ ip[1] = "0"
      octal == leadingZero /\ \A i \in 1..Len(ip) : DigitValue(ip[i]) < 8
  IN IF CountOf(e, ".") > 1 \/ ~\E i \in 1..Len(e) : e[i] \in DigitChars
     THEN Threw
     ELSE IF octal
          THEN IF CountOf(e, ".") = 1 THEN Threw ELSE Ok(Num(DigitsValue(ip, 8) * Scale))
          ELSE Ok(Num(ToNumber(e)))

IsQuoted(e) ==
  /\ Len(e) >= 2
  /\ e[1] = "\"" /\ e[Len(e)] = "\""
  /\ \A i \in 2..(Len(e) - 1) : e[i] # "\""

\* An expression of a script: a numeric literal, a sum of two of them, a
\* string literal, one of the date scripts, undefined, or an identifier,
\* which is a ReferenceError unless the sandbox binds it to a variable.  Any
\* other text of the model's inputs is no valid JavaScript.
Plus(l, r) == IF l.threw \/ r.threw THEN Threw ELSE Ok(Num(l.value.v + r.value.v))

EvalExpr(e, variables, now) ==
  IF IsNumberText(e) THEN JsNumericLiteral(e)
  ELSE IF CountOf(e, "+") = 1 /\ IsNumberText(SubSeq(e, 1, FirstIndex(e, "+") - 1))
            /\ IsNumberText(SubSeq(e, FirstIndex(e, "+") + 1, Len(e)))
  THEN Plus(JsNumericLiteral(SubSeq(e, 1, FirstIndex(e, "+") - 1)),
            JsNumericLiteral(SubSeq(e, FirstIndex(e, "+") + 1, Len(e))))
  ELSE IF IsQuoted(e) THEN Ok(Str(SubSeq(e, 2, Len(e) - 1)))
  ELSE IF e = NowScript THEN Ok(Str(toISOString(now)))
  ELSE IF e = TomorrowScript THEN Ok(Str(toISOString(now + HoursOfMs(MsPerDay))))
  ELSE IF e = YesterdayScript THEN Ok(Str(toISOString(now - HoursOfMs(MsPerDay))))
  ELSE IF e = <<"undefined">> THEN Ok(Undefined)
  ELSE IF Len(e) = 1 /\ HasId(variables, e[1])
  THEN Ok(parseGuessedValueType(variables[FindById(variables, e[1])].value))
  ELSE Threw

\* x === y for the values of the sandbox; two arrays are never the same object.
StrictEquals(x, y) == x.t # "array" /\ x = y

\* Array.prototype.indexOf, 0-based, -1 when absent.
ArrayIndexOf(list, x) ==
  IF \E i \in 1..Len(list) : StrictEquals(list[i], x)
  THEN (CHOOSE i \in 1..Len(list) :
          StrictEquals(list[i], x) /\ \A j \in 1..(i - 1) : ~StrictEquals(list[j], x)) - 1
  ELSE -1

\* String.prototype.indexOf, 0-based, -1 when absent.
OccursAt(str, sub, i) == i + Len(sub) <= Len(str) /\ SubSeq(str, i + 1, i + Len(sub)) = sub
StringIndexOf(str, sub) ==
  IF \E i \in 0..Len(str) : OccursAt(str, sub, i)
  THEN CHOOSE i \in 0..Len(str) :
         OccursAt(str, sub, i) /\ \A j \in 0..(i - 1) : ~OccursAt(str, sub, j)
  ELSE -1

\* x.indexOf(item); a TypeError when x is neither an array nor a string.
IndexOf(x, item) ==
  IF x.t = "array" THEN ArrayIndexOf(x.v, item) ELSE StringIndexOf(x.v, JsToString(item))

\* x.at(index) of an array or a string: a negative index counts from the end.
At(x, index) ==
  LET k == IF index < 0 THEN Len(x.v) + index ELSE index IN
  IF k < 0 \/ k >= Len(x.v) THEN Undefined
  ELSE IF x.t = "array" THEN x.v[k + 1] ELSE Str(<<x.v[k + 1]>>)

\* The two statements of 'Map item with same index' on the outcomes of
\* evaluating its three identifiers: indexOf and at are a TypeError on a
\* value that is neither an array nor a string.
MapItem(base, item, target) ==
  IF base.threw \/ base.value.t \notin {"array", "string"} THEN Threw
  ELSE IF item.threw THEN Threw
  ELSE IF target.threw \/ target.value.t \notin {"array", "string"} THEN Threw
  ELSE Ok(At(target.value, IndexOf(base.value, item.value)))

\* The identifiers of a script, evaluated in the sandbox.
Operands(exprs, variables, now) ==
  [i \in 1..Len(exprs) |-> EvalExpr(exprs[i], variables, now)]

MapOperands(ops) == MapItem(ops[1], ops[2], ops[3])

\* The script of 'Map item with same index'.
RunMap(body, variables, now) ==
  MapOperands(Operands(<< <<body[2]>>, <<body[4]>>, <<body[7]>> >>, variables, now))

\* target.push(item) in place of concat: the item is always one element.
ConcatPush(list, item) == Append(list, item)

\* target.concat(item): the elements of an array argument are appended one
\* by one, any other argument is appended as one element.
Concat(list, item) == IF item.t = "array" THEN list \o item.v ELSE Append(list, item)

\* The four statements of 'Append value(s)' on the outcomes of evaluating
\* the item and the target identifier.
AppendItem(item, target) ==
  IF item.threw \/ target.threw THEN Threw
  ELSE IF IsFalsy(item.value) THEN Ok(target.value)
  ELSE IF IsFalsy(target.value) THEN Ok(Arr(<<item.value>>))
  ELSE IF target.value.t # "array" THEN Ok(Arr(<<target.value, item.value>>))
  ELSE Ok(Arr(Concat(target.value.v, item.value)))

AppendOperands(ops) == AppendItem(ops[1], ops[2])

\* The script of 'Append value(s)': the item is the text between "if(!" and
\* the first ") ", the target the identifier after the first "return ".
RunAppend(body, variables, now) ==
  AppendOperands(
    Operands(<< SubSeq(body, 2, FirstIndex(body, ") ") - 1),
                <<body[FirstIndex(body, ") ") + 2]>> >>, variables, now))

\* The script with its last branch tested first.
RunMomentNightFirst(hour) ==
  IF hour >= 22 \/ hour < 6 THEN Ok(Str(<<"night">>))
  ELSE IF hour < 12 THEN Ok(Str(<<"morning">>))
  ELSE IF hour >= 12 /\ hour < 18 THEN Ok(Str(<<"afternoon">>))
  ELSE IF hour >= 18 THEN Ok(Str(<<"evening">>))
  ELSE Ok(Undefined)

\* The script of 'Moment of the day', run where getHours() is hour.
RunMoment(hour) ==
  IF hour < 12 THEN Ok(Str(<<"morning">>))
  ELSE IF hour >= 12 /\ hour < 18 THEN Ok(Str(<<"afternoon">>))
  ELSE IF hour >= 18 THEN Ok(Str(<<"evening">>))
  ELSE IF hour >= 22 \/ hour < 6 THEN Ok(Str(<<"night">>))
  ELSE Ok(Undefined)

\* vm.runInContext(code, sandbox): code is "(function() {" body "})()", the
\* sandbox binds every variable id to its guessed typed value.
runInContext(code, variables, now) ==
  LET body == SubSeq(code, 2, Len(code) - 1) IN
  IF body = <<>> THEN Threw
  ELSE IF body[1] = "if(!" THEN RunAppend(body, variables, now)
  ELSE IF body[1] = "const itemIndex = " THEN RunMap(body, variables, now)
  ELSE IF body = MomentScript THEN RunMoment(HourOf(now))
  ELSE IF body[1] = "return " THEN
         IF Len(body) = 1 THEN Ok(Undefined) ELSE EvalExpr(Tail(body), variables, now)
  ELSE Threw

\* str.startsWith('{{') && str.endsWith('}}') && str.split('{{').length === 2
isSingleVariable(str) ==
  /\ str # <<>>
  /\ str[1] = "{{" /\ str[Len(str)] = "}}"
  /\ CountOf(str, "{{") = 1

\* /0[^.].+/.test(str): a "0" anywhere, then a character that is no ".",
\* then at least one more character.
MatchesZeroPattern(str) ==
  \E i \in 1..Len(str) : str[i] = "0" /\ i + 2 <= Len(str) /\ str[i + 1] # "."

\* !isNaN(str) && /0[^.].+/.test(str)
OctalGuard(str) == IsNumeric(str) /\ MatchesZeroPattern(str)

\* The code handed to the sandbox.
Evaluating(variables, str) ==
  parseVariables(variables,
    <<"(function() {">>
      \o (IF \E i \in 1..Len(str) : str[i] = "return " THEN str ELSE <<"return ">> \o str)
      \o <<"})()">>,
    TRUE)

\* parseVariables(variables)(str), the string returned for a single
\* placeholder and by the catch clause.
Substituted(variables, str) == Str(parseVariables(variables, str, FALSE))

\* evaluateSetVariableExpression(variables)(str): value is what the call
\* returns, via names the return statement taken ("single", "octal", "vm",
\* "catch").
Returned(via, value) == [called |-> TRUE, via |-> via, value |-> value]

\* The run without the try statement: an error of the sandbox leaves the call.
TryNoCatch(run, fallback) ==
  IF run.threw THEN Returned("uncaught", Undefined) ELSE Returned("vm", run.value)

\* The try statement: the value of the run, or of the catch clause.
TryCatch(run, fallback) ==
  IF run.threw THEN Returned("catch", fallback) ELSE Returned("vm", run.value)

evaluateSetVariableExpression(variables, str, now) ==
  IF isSingleVariable(str) THEN Returned("single", Substituted(variables, str))
  ELSE IF OctalGuard(str) THEN Returned("octal", Str(str))
  ELSE TryCatch(runInContext(Evaluating(variables, str), variables, now),
                Substituted(variables, str))

----------------------------------------------------------------------------
(* executeSetVariable                                                      *)

NoSessionState == [present |-> FALSE, variables |-> <<>>]
NewSessionState(variables) == [present |-> TRUE, variables |-> variables]

\* evaluateSetVariableExpression was not called.
NotEvaluated == [called |-> FALSE, via |-> "none", value |-> Undefined]

\* An ExecuteLogicResponse: thrown is TRUE when the call ended in an
\* exception instead of a response.
Response(edge, actions, session) ==
  [thrown |-> FALSE, outgoingEdgeId |-> edge, clientSideActions |-> actions,
   newSessionState |-> session]

Thrown == [thrown |-> TRUE, outgoingEdgeId |-> "", clientSideActions |-> <<>>,
           newSessionState |-> NoSessionState]

SetVariableAction(scriptToExecute) ==
  [type |-> "setVariable", setVariable |-> [scriptToExecute |-> scriptToExecute],
   expectsDedicatedReply |-> TRUE]

\* The condition without the test of state.whatsApp.
IsClientRouteAnyChannel(state, options, expressionToEvaluate) ==
  /\ IsTruthy(expressionToEvaluate)
  /\ \/ options.type \in {"undefined", "Custom"} /\ options.isExecutedOnClient
     \/ options.type = "Moment of the day"

\* The condition of the client-side branch.
IsClientRoute(state, options, expressionToEvaluate) ==
  LET isCustomValue == options.type \in {"undefined", "Custom"} IN
  /\ IsTruthy(expressionToEvaluate)
  /\ ~state.whatsApp.present
  /\ \/ isCustomValue /\ options.isExecutedOnClient
     \/ options.type = "Moment of the day"

\* The commit skipped when nothing was evaluated.
CommitSkipsUndefined(variables, block, evaluatedExpression) ==
  IF ~HasId(variables, block.options.variableId) \/ evaluatedExpression = Undefined
  THEN Response(block.outgoingEdgeId, <<>>, NoSessionState)
  ELSE Response(block.outgoingEdgeId, <<>>,
                NewSessionState(
                  [i \in 1..Len(variables) |->
                     IF variables[i].id = block.options.variableId
                     THEN [variables[i] EXCEPT !.value = evaluatedExpression]
                     ELSE variables[i]]))

\* The commit creating the variable the pool lacks.
CommitAddsMissing(variables, block, evaluatedExpression) ==
  IF ~HasId(variables, block.options.variableId)
  THEN Response(block.outgoingEdgeId, <<>>,
                NewSessionState(Append(variables,
                  Variable(block.options.variableId, "", evaluatedExpression))))
  ELSE Response(block.outgoingEdgeId, <<>>,
                NewSessionState(
                  [i \in 1..Len(variables) |->
                     IF variables[i].id = block.options.variableId
                     THEN [variables[i] EXCEPT !.value = evaluatedExpression]
                     ELSE variables[i]]))

\* The end of executeSetVariable: the lookup of the variable and the new
\* session state.
Commit(variables, block, evaluatedExpression) ==
  LET existing == FindById(variables, block.options.variableId) IN
  IF existing = 0 THEN Response(block.outgoingEdgeId, <<>>, NoSessionState)
  ELSE LET newVariable == [variables[existing] EXCEPT !.value = evaluatedExpression] IN
       Response(block.outgoingEdgeId, <<>>,
                NewSessionState(updateVariablesInSession(variables, newVariable)))

\* What one call did: its response, the expression getExpressionToEvaluate
\* returned (Null when it was not called or threw) and the call of
\* evaluateSetVariableExpression.
Outcome(response, expression, evaluation) ==
  [response |-> response, expression |-> expression, evaluation |-> evaluation]

\* The server side: the evaluation, then the commit of its value.
Committed(variables, block, expressionToEvaluate, evaluation) ==
  Outcome(Commit(variables, block, evaluation.value), expressionToEvaluate, evaluation)

\* The client-side branch falling through to the commit of undefined.
ExecuteExpressionClientCommits(state, block, expressionToEvaluate, now) ==
  IF IsClientRoute(state, block.options, expressionToEvaluate)
  THEN Outcome(
         [Commit(state.variables, block, Undefined) EXCEPT
            !.clientSideActions =
              <<SetVariableAction(parseScriptToExecuteClientSideAction(
                  state.variables, expressionToEvaluate.str))>>],
         expressionToEvaluate, NotEvaluated)
  ELSE Committed(state.variables, block, expressionToEvaluate,
                 IF IsTruthy(expressionToEvaluate)
                 THEN evaluateSetVariableExpression(state.variables,
                                                    expressionToEvaluate.str, now)
                 ELSE NotEvaluated)

\* executeSetVariable after its first return, on the expression
\* getExpressionToEvaluate returned.
ExecuteExpression(state, block, expressionToEvaluate, now) ==
  IF IsClientRoute(state, block.options, expressionToEvaluate)
  THEN Outcome(
         Response(block.outgoingEdgeId,
                  <<SetVariableAction(parseScriptToExecuteClientSideAction(
                      state.variables, expressionToEvaluate.str))>>,
                  NoSessionState),
         expressionToEvaluate, NotEvaluated)
  ELSE Committed(state.variables, block, expressionToEvaluate,
                 IF IsTruthy(expressionToEvaluate)
                 THEN evaluateSetVariableExpression(state.variables,
                                                    expressionToEvaluate.str, now)
                 ELSE NotEvaluated)

\* An exception of getExpressionToEvaluate leaves executeSetVariable.
ExecuteSynth(state, block, synth, now) ==
  IF synth.threw THEN Outcome(Thrown, Null, NotEvaluated)
  ELSE ExecuteExpression(state, block, synth.expr, now)

\* executeSetVariable(state, block)
executeSetVariable(state, block, now, newId) ==
  IF block.options.variableId = ""
  THEN Outcome(Response(block.outgoingEdgeId, <<>>, NoSessionState), Null, NotEvaluated)
  ELSE ExecuteSynth(state, block,
                    getExpressionToEvaluate(state, block.options, now, newId), now)

----------------------------------------------------------------------------
(* The state machine: a session, and one call of executeSetVariable on it  *)

VARIABLES
  sessionVariables,  \* state.typebotsQueue[0].typebot.variables, as the caller holds it
  whatsApp,          \* state.whatsApp: the contact of a messaging-channel session
  resultId,          \* state.typebotsQueue[0].resultId
  pc,                \* "ready" before the call, "returned" or "thrown" after it
  lastBlock,         \* the block the call was given
  clock,             \* hour of the day new Date() showed during the call, -1 if not read
  before,            \* the pool the call was given
  lastResponse,      \* the ExecuteLogicResponse of the call
  lastExpression,    \* the expression getExpressionToEvaluate returned to the call
  lastEvaluation     \* the call of evaluateSetVariableExpression made by the call

vars ==
  <<sessionVariables, whatsApp, resultId, pc, lastBlock, clock, before, lastResponse,
    lastExpression, lastEvaluation>>

NoParams ==
  [baseListVariableId |-> "undefined", baseItemVariableId |-> "undefined",
   targetListVariableId |-> "undefined"]
MapParams(base, item, target) ==
  [baseListVariableId |-> base, baseItemVariableId |-> item, targetListVariableId |-> target]

Options(type, variableId) ==
  [type |-> type, variableId |-> variableId, expressionToEvaluate |-> Null,
   isExecutedOnClient |-> FALSE, timeZone |-> <<>>, item |-> <<"undefined">>,
   mapListItemParams |-> NoParams]

Block(options) == [outgoingEdgeId |-> "e1", options |-> options]
NoBlock == [outgoingEdgeId |-> "", options |-> Options("undefined", "")]

Pool(a, b, c) == <<Variable("v1", "A", a), Variable("v2", "B", b), Variable("v3", "C", c)>>

Placeholder(name) == <<"{{", name, "}}">>

NoWhatsApp == [present |-> FALSE, name |-> Null, phoneNumber |-> Null]
WhatsApps ==
  { NoWhatsApp,
    [present |-> TRUE, name |-> Some(<<"John">>), phoneNumber |-> Some(<<"3", "3", "6">>)],
    [present |-> TRUE, name |-> Null, phoneNumber |-> Some(<<>>)] }

ResultIds == {Null, Some(<<"result1">>)}
NewIds == {"cuid1", "cuid2"}
Hours == 0..23
\* The target of a block: a variable of the pool, or an id the pool lacks.
TargetIds == {"v1", "v9"}

\* new Date() at the given hour of 2024-01-15 (UTC, the zone of the server).
DateAt(hour) == 14 * 24 + hour

\* Values of the variables of the initial pools.
RECURSIVE ListsUpTo(_)
ListsUpTo(n) ==
  IF n = 0 THEN {<<>>}
  ELSE ListsUpTo(n - 1)
         \cup {Append(l, x) : l \in {m \in ListsUpTo(n - 1) : Len(m) = n - 1},
                              x \in {Str(<<"a">>), Str(<<"b">>)}}
Scalars == {Undefined, Str(<<>>), Str(<<"a">>), Str(<<"b">>), Str(<<"0">>)}
Values == Scalars \cup {Arr(l) : l \in ListsUpTo(MaxListLen)}

\* Characters of the numeric custom expressions.
NumberChars == {"0", "1", "5", "."}
RECURSIVE TextsOfLen(_)
TextsOfLen(n) ==
  IF n = 0 THEN {<<>>}
  ELSE {Append(t, c) : t \in TextsOfLen(n - 1), c \in NumberChars}
NumberTexts == UNION {TextsOfLen(n) : n \in 1..MaxLen}

\* Custom expressions of Spec: absent, empty, one placeholder, a sum, text
\* that is no JavaScript, a statement with its own return, numeric text.
CustomExpressions ==
  { Null, Some(<<>>), Some(Placeholder("A")), Some(<<"1", "+", "1">>),
    Some(<<"f", "(">>), Some(<<"return ", "1", "5">>), Some(<<"0", "1", "2", "3">>),
    Some(<<"1", "0">>) }

TimeZones ==
  { <<>>, <<"Europe/Paris">>, <<"UTC">>, <<"Mars/Phobos">>, Placeholder("C") }

Ready ==
  /\ pc = "ready"
  /\ lastBlock = NoBlock
  /\ clock = -1
  /\ before = sessionVariables
  /\ lastResponse = Response("", <<>>, NoSessionState)
  /\ lastExpression = Null
  /\ lastEvaluation = NotEvaluated

Init ==
  /\ sessionVariables \in {Pool(a, b, c) : a \in {Undefined, Str(<<"a">>)},
                                    b \in {Str(<<"b">>), Arr(<<Str(<<"a">>)>>)},
                                    c \in {Str(<<>>), Str(<<"America/New_York">>)}}
  /\ whatsApp \in WhatsApps
  /\ resultId \in ResultIds
  /\ Ready

\* One call: the caller keeps the new session state when the response has one.
Returns(blk, hour, readsClock, out) ==
  /\ pc' = IF out.response.thrown THEN "thrown" ELSE "returned"
  /\ lastBlock' = blk
  /\ clock' = IF readsClock THEN hour ELSE -1
  /\ before' = sessionVariables
  /\ lastResponse' = out.response
  /\ lastExpression' = out.expression
  /\ lastEvaluation' = out.evaluation
  /\ sessionVariables' = IF out.response.newSessionState.present
                         THEN out.response.newSessionState.variables
                         ELSE sessionVariables
  /\ UNCHANGED <<whatsApp, resultId>>

Run(blk, hour, readsClock, newId) ==
  Returns(blk, hour, readsClock,
          executeSetVariable(
            [variables |-> sessionVariables, whatsApp |-> whatsApp, resultId |-> resultId],
            blk, DateAt(hour), newId))

ExecNoVariable ==
  /\ pc = "ready"
  /\ \E type \in {"Custom", "Empty", "Moment of the day"}, client \in BOOLEAN :
       Run(Block([Options(type, "") EXCEPT !.expressionToEvaluate = Some(<<"1", "+", "1">>),
                                            !.isExecutedOnClient = client]),
           0, FALSE, "cuid1")

ExecContact ==
  /\ pc = "ready"
  /\ \E type \in {"Contact name", "Phone number"}, id \in TargetIds :
       Run(Block(Options(type, id)), 0, FALSE, "cuid1")

ExecDate ==
  /\ pc = "ready"
  /\ \E type \in {"Now", "Today", "Tomorrow", "Yesterday"}, id \in TargetIds,
        timeZone \in TimeZones, hour \in Hours :
       Run(Block([Options(type, id) EXCEPT !.timeZone = timeZone]), hour, TRUE, "cuid1")

ExecId ==
  /\ pc = "ready"
  /\ \E type \in {"Random ID", "Result ID", "User ID"}, id \in TargetIds, newId \in NewIds :
       Run(Block(Options(type, id)), 0, FALSE, newId)

ExecMap ==
  /\ pc = "ready"
  /\ \E base \in {"v3", "undefined"}, target \in {"v1", "v3"}, id \in {"v1"} :
       Run(Block([Options("Map item with same index", id)
                    EXCEPT !.mapListItemParams = MapParams(base, "v2", target)]),
           0, FALSE, "cuid1")

ExecAppend ==
  /\ pc = "ready"
  /\ \E item \in {Placeholder("B"), Placeholder("Z"), Quoted(<<"x">>)}, id \in TargetIds :
       Run(Block([Options("Append value(s)", id) EXCEPT !.item = item]), 0, FALSE, "cuid1")

ExecEmpty ==
  /\ pc = "ready"
  /\ \E id \in TargetIds : Run(Block(Options("Empty", id)), 0, FALSE, "cuid1")

ExecMoment ==
  /\ pc = "ready"
  /\ \E id \in TargetIds, hour \in Hours :
       Run(Block(Options("Moment of the day", id)), hour, TRUE, "cuid1")

ExecEnvironment ==
  /\ pc = "ready"
  /\ \E id \in TargetIds : Run(Block(Options("Environment name", id)), 0, FALSE, "cuid1")

ExecCustom ==
  /\ pc = "ready"
  /\ \E type \in {"Custom", "undefined"}, id \in TargetIds, expr \in CustomExpressions,
        client \in BOOLEAN :
       Run(Block([Options(type, id) EXCEPT !.expressionToEvaluate = expr,
                                           !.isExecutedOnClient = client]),
           0, FALSE, "cuid1")

Next ==
  \/ ExecNoVariable
  \/ ExecContact
  \/ ExecDate
  \/ ExecId
  \/ ExecMap
  \/ ExecAppend
  \/ ExecEmpty
  \/ ExecMoment
  \/ ExecEnvironment
  \/ ExecCustom

Spec == Init /\ [][Next]_vars

\* The evaluator on numeric text: a Custom lastBlock whose expression is any
\* text of digits and points.
InitEval ==
  /\ sessionVariables \in {Pool(a, Str(<<"b">>), Str(<<>>)) : a \in {Undefined, Str(<<"a">>)}}
  /\ whatsApp \in {NoWhatsApp, CHOOSE w \in WhatsApps : w.present /\ ~w.name.null}
  /\ resultId = Null
  /\ Ready

ExecNumber ==
  /\ pc = "ready"
  /\ \E str \in NumberTexts, id \in TargetIds :
       Run(Block([Options("Custom", id) EXCEPT !.expressionToEvaluate = Some(str)]),
           0, FALSE, "cuid1")

NextEval == ExecNumber

SpecEval == InitEval /\ [][NextEval]_vars

\* The list descriptors on every pool of three values.
InitList ==
  /\ sessionVariables \in {Pool(a, b, c) : a \in Values, b \in Values, c \in Values}
  /\ whatsApp = NoWhatsApp
  /\ resultId = Null
  /\ Ready

NextList == ExecMap \/ ExecAppend

SpecList == InitList /\ [][NextList]_vars

----------------------------------------------------------------------------
(* Properties of one call                                                  *)

opts == lastBlock.options

\* The response of the client route: one setVariable action that expects a
\* dedicated reply.
ClientResponse ==
  /\ Len(lastResponse.clientSideActions) = 1
  /\ lastResponse.clientSideActions[1].type = "setVariable"
  /\ lastResponse.clientSideActions[1].expectsDedicatedReply

\* The response of the server route: no client-side action.
ServerResponse == lastResponse.clientSideActions = <<>>

EdgeTaken == lastResponse.outgoingEdgeId = lastBlock.outgoingEdgeId

\* Custom or unspecified and flagged isExecutedOnClient, or 'Moment of the day'.
ClientDescriptor ==
  \/ opts.type \in {"Custom", "undefined"} /\ opts.isExecutedOnClient
  \/ opts.type = "Moment of the day"

\* Index in the pool of the variable the block targets, 0 when it has none.
TargetIndex == FindById(before, opts.variableId)

\* C1, as stated: the client route is taken exactly when the synthesized
\* expression is non-null, the session is no whatsApp session and the
\* descriptor is a client descriptor.
C1_Original ==
  pc = "returned" =>
    (ClientResponse <=> (~lastExpression.null /\ ~whatsApp.present /\ ClientDescriptor))

\* C1, amended: the client route is taken exactly when the block has a
\* variableId, the synthesized expression is neither null nor the empty
\* string, the session is no whatsApp session and the descriptor is a client
\* descriptor; every other call takes the server route, so a whatsApp session
\* never takes the client route.
C1_Routing ==
  pc = "returned" =>
    /\ ClientResponse <=>
         /\ opts.variableId # ""
         /\ ~lastExpression.null /\ lastExpression.str # <<>>
         /\ ~whatsApp.present
         /\ ClientDescriptor
    /\ ~ClientResponse => ServerResponse
    /\ whatsApp.present => ServerResponse

C1_Witness ==
  /\ pc = "returned" /\ ClientResponse
  /\ opts.type = "Custom" /\ opts.isExecutedOnClient /\ ~whatsApp.present

\* The call synthesized null for a block that has a variableId.
SynthesizedNull == pc = "returned" /\ opts.variableId # "" /\ lastExpression.null

\* C2, as stated: when the synthesized expression is null the call is a
\* no-op: the pool is unchanged, no session state is returned, only the edge.
C2_Original ==
  SynthesizedNull =>
    /\ sessionVariables = before
    /\ ~lastResponse.newSessionState.present
    /\ ServerResponse /\ EdgeTaken

\* C2, amended: when the synthesized expression is null nothing is evaluated
\* and no client-side action is returned, and the edge is taken; when the
\* pool has the target variable the call still commits: it returns the new
\* session state updateVariablesInSession makes of the target variable with
\* its value set to undefined; only when the pool lacks the target variable
\* is the pool unchanged and no session state returned.
C2_NullResets ==
  SynthesizedNull =>
    /\ ~lastEvaluation.called
    /\ ServerResponse /\ EdgeTaken
    /\ IF HasId(before, opts.variableId)
       THEN /\ lastResponse.newSessionState.present
            /\ lastResponse.newSessionState.variables =
                 updateVariablesInSession(
                   before, [before[TargetIndex] EXCEPT !.value = Undefined])
            /\ sessionVariables = lastResponse.newSessionState.variables
       ELSE /\ ~lastResponse.newSessionState.present
            /\ sessionVariables = before

C2_Witness ==
  /\ SynthesizedNull /\ opts.type = "Empty"
  /\ HasId(before, opts.variableId)
  /\ before[TargetIndex].value # Undefined
  /\ lastResponse.newSessionState.present
  /\ sessionVariables # before

\* C3: on the server route only the value of the variable whose id is the
\* block's variableId can change: every variable keeps its id, name and
\* position, every other variable keeps its value, and when no variable has
\* that id the pool is unchanged and no session state is returned; the edge
\* is returned in both cases.
C3_CommitFrame ==
  (pc = "returned" /\ ServerResponse) =>
    /\ EdgeTaken
    /\ Len(sessionVariables) = Len(before)
    /\ \A i \in 1..Len(before) :
         /\ sessionVariables[i].id = before[i].id
         /\ sessionVariables[i].name = before[i].name
         /\ before[i].id # opts.variableId => sessionVariables[i] = before[i]
    /\ ~HasId(before, opts.variableId) =>
         /\ sessionVariables = before
         /\ ~lastResponse.newSessionState.present

C3_Witness ==
  /\ pc = "returned" /\ ServerResponse
  /\ lastResponse.newSessionState.present
  /\ sessionVariables[TargetIndex].value # before[TargetIndex].value
  /\ lastEvaluation.called

\* C4: a call that takes the client route leaves the pool as it was, returns
\* no session state, evaluates nothing on the server, and returns the edge
\* with the client-side action.
C4_ClientLeavesPool ==
  (pc = "returned" /\ ClientResponse) =>
    /\ sessionVariables = before
    /\ ~lastResponse.newSessionState.present
    /\ ~lastEvaluation.called
    /\ EdgeTaken

C4_Witness ==
  /\ pc = "returned" /\ ClientResponse
  /\ opts.type = "Moment of the day"
  /\ HasId(before, opts.variableId)

\* The sandbox threw on the expression of the call.
SandboxThrew ==
  /\ pc # "ready"
  /\ lastEvaluation.called
  /\ ~isSingleVariable(lastExpression.str) /\ ~OctalGuard(lastExpression.str)
  /\ runInContext(Evaluating(before, lastExpression.str), before,
                  DateAt(IF clock < 0 THEN 0 ELSE clock)).threw

\* C5: an error thrown in the sandbox does not leave
\* evaluateSetVariableExpression: the call returns the template substitution
\* of the expression text, and the block returns its edge (and commits that
\* string when the pool has the target).
C5_ErrorsSwallowed ==
  SandboxThrew =>
    /\ pc = "returned"
    /\ lastEvaluation.via = "catch"
    /\ lastEvaluation.value = Str(parseVariables(before, lastExpression.str, FALSE))
    /\ EdgeTaken
    /\ HasId(before, opts.variableId) =>
         sessionVariables[TargetIndex].value = lastEvaluation.value

C5_Witness ==
  /\ SandboxThrew /\ pc = "returned"
  /\ opts.type = "Custom" /\ lastExpression.str = <<"f", "(">>
  /\ lastEvaluation.value = Str(<<"f", "(">>)

\* The leading-zero pattern: a "0" at the start, then a character that is no
\* ".", then at least one more character.
LeadingZero(str) == Len(str) >= 3 /\ str[1] = "0" /\ str[2] # "."

\* C6, as stated: numeric text is returned unevaluated, as a string, exactly
\* when it matches the leading-zero pattern; numeric text without a leading
\* zero ("1000", "1005") is evaluated to a number.
C6_Original ==
  (pc = "returned" /\ lastEvaluation.called /\ IsNumeric(lastExpression.str)) =>
    /\ (lastEvaluation.value = Str(lastExpression.str)) <=> LeadingZero(lastExpression.str)
    /\ ~LeadingZero(lastExpression.str) => lastEvaluation.value.t = "number"

\* An 'Append value(s)' script ran in the sandbox without throwing.
AppendRan ==
  pc = "returned" /\ opts.type = "Append value(s)" /\ lastEvaluation.via = "vm"

\* The item and the target of the script, as the sandbox binds them.
AppendedItem ==
  IF IsQuoted(opts.item) THEN Str(SubSeq(opts.item, 2, Len(opts.item) - 1))
  ELSE parseGuessedValueType(before[FindByName(before, opts.item[2])].value)
AppendTarget == parseGuessedValueType(before[TargetIndex].value)

\* C7, as stated: empty item: the target; else empty target: [item]; else a
\* target that is no list: [target, item]; else the target list with the item
\* as its new last element.
C7_Original ==
  AppendRan =>
    lastEvaluation.value =
      IF IsFalsy(AppendedItem) THEN AppendTarget
      ELSE IF IsFalsy(AppendTarget) THEN Arr(<<AppendedItem>>)
      ELSE IF AppendTarget.t # "array" THEN Arr(<<AppendTarget, AppendedItem>>)
      ELSE Arr(Append(AppendTarget.v, AppendedItem))

\* C7, amended: as stated, with "empty" read as falsy, except that a target
\* list is concatenated with the item: an item that is itself a list has its
\* elements appended, any other item becomes the new last element.
C7_Append ==
  AppendRan =>
    lastEvaluation.value =
      IF IsFalsy(AppendedItem) THEN AppendTarget
      ELSE IF IsFalsy(AppendTarget) THEN Arr(<<AppendedItem>>)
      ELSE IF AppendTarget.t # "array" THEN Arr(<<AppendTarget, AppendedItem>>)
      ELSE IF AppendedItem.t = "array" THEN Arr(AppendTarget.v \o AppendedItem.v)
      ELSE Arr(Append(AppendTarget.v, AppendedItem))

C7_Witness ==
  /\ AppendRan
  /\ AppendedItem.t = "array" /\ Len(AppendedItem.v) = 2
  /\ AppendTarget.t = "array" /\ AppendTarget.v # <<>>
  /\ lastEvaluation.value.t = "array"
  /\ Len(lastEvaluation.value.v) = Len(AppendTarget.v) + 2

\* A block of the given date type was evaluated on the server.
DateRan(type) == pc = "returned" /\ opts.type = type /\ lastEvaluation.called

\* The time zone of the block after template substitution.
ResolvedZone == parseVariables(before, opts.timeZone, FALSE)

\* The value is the instant of the call as a UTC ISO string.
IsUtcNow ==
  lastEvaluation.value = Str(<<"2024-01-", "15", "T", Pad2(clock), ":00:00.000", "Z">>)

\* The value is the instant of the call on the wall clock of the resolved
\* zone, followed by the offset of that zone.
IsZonedNow ==
  LET offset == CASE ResolvedZone = <<"Europe/Paris">> -> 1
                  [] ResolvedZone = <<"America/New_York">> -> -5
                  [] ResolvedZone = <<"UTC">> -> 0
      suffix == CASE ResolvedZone = <<"Europe/Paris">> -> "+01:00"
                  [] ResolvedZone = <<"America/New_York">> -> "-05:00"
                  [] ResolvedZone = <<"UTC">> -> "Z"
      local == clock + offset
      day == IF local < 0 THEN "14" ELSE IF local > 23 THEN "16" ELSE "15"
  IN lastEvaluation.value =
       Str(<<"2024-01-", day, "T", Pad2((local + 24) % 24), ":00:00", suffix>>)

\* C8, as stated: Now and Today both give the UTC ISO string for an empty
\* zone and the zoned timestamp for a valid zone.
C8_Original ==
  \A type \in {"Now", "Today"} :
    DateRan(type) =>
      /\ isEmpty(ResolvedZone) => IsUtcNow
      /\ ResolvedZone \in ValidZones => IsZonedNow

\* C8, amended: Now gives the UTC ISO string (ending in Z) for an empty zone
\* and, for a valid zone, the wall clock of that zone with its offset (+HH:mm
\* or -HH:mm, Z for a zero offset); Today gives the UTC ISO string whatever
\* its time zone is.
C8_NowZonedTodayUtc ==
  /\ DateRan("Now") =>
       /\ isEmpty(ResolvedZone) => IsUtcNow
       /\ ResolvedZone \in ValidZones => IsZonedNow
  /\ DateRan("Today") => IsUtcNow

C8_Witness ==
  /\ DateRan("Now") /\ clock = 3
  /\ opts.timeZone = Placeholder("C")
  /\ lastEvaluation.value = Str(<<"2024-01-", "14", "T", "22", ":00:00", "-05:00">>)

\* C9: the 'Moment of the day' script evaluated at hour h gives "morning" for
\* h < 12, "afternoon" for 12 <= h < 18 and "evening" for h >= 18, and never
\* "night".
C9_MomentOfDay ==
  (pc = "returned" /\ opts.type = "Moment of the day" /\ lastEvaluation.called) =>
    /\ lastEvaluation.via = "vm"
    /\ lastEvaluation.value =
         IF clock < 12 THEN Str(<<"morning">>)
         ELSE IF clock < 18 THEN Str(<<"afternoon">>)
         ELSE Str(<<"evening">>)
    /\ lastEvaluation.value # Str(<<"night">>)

C9_Witness ==
  /\ pc = "returned" /\ opts.type = "Moment of the day" /\ lastEvaluation.called
  /\ clock = 23
  /\ lastEvaluation.value = Str(<<"evening">>)
  /\ HasId(before, opts.variableId)
  /\ sessionVariables[TargetIndex].value = Str(<<"evening">>)

\* The three variables of a 'Map item with same index' script, as the sandbox
\* binds them.
SandboxValue(id) == parseGuessedValueType(before[FindById(before, id)].value)
MapBaseList == SandboxValue(opts.mapListItemParams.baseListVariableId)
MapBaseItem == SandboxValue(opts.mapListItemParams.baseItemVariableId)
MapTargetList == SandboxValue(opts.mapListItemParams.targetListVariableId)

\* A 'Map item with same index' script ran in the sandbox on a base list and
\* a non-empty target list.
MapRan ==
  /\ pc = "returned" /\ opts.type = "Map item with same index"
  /\ lastEvaluation.via = "vm"
  /\ MapBaseList.t = "array"
  /\ MapTargetList.t = "array" /\ MapTargetList.v # <<>>

\* C10, as stated: an item absent from the base list gives undefined, which
\* is no element of the target list; an item present gives the element of
\* the target list at the index of its first occurrence in the base list.
C10_Original ==
  MapRan =>
    IF \E i \in 1..Len(MapBaseList.v) : MapBaseList.v[i] = MapBaseItem
    THEN LET first == CHOOSE i \in 1..Len(MapBaseList.v) :
                        /\ MapBaseList.v[i] = MapBaseItem
                        /\ \A j \in 1..(i - 1) : MapBaseList.v[j] # MapBaseItem
         IN lastEvaluation.value =
              IF first <= Len(MapTargetList.v) THEN MapTargetList.v[first] ELSE Undefined
    ELSE /\ lastEvaluation.value = Undefined
         /\ \A j \in 1..Len(MapTargetList.v) : lastEvaluation.value # MapTargetList.v[j]

====
